---- MODULE Spec2Model ----
(***************************************************************************)
(* Credit-gated processing queue of nevisoAI.                              *)
(*                                                                         *)
(* Credit ledger   : app/services/credit_service.py (CreditManager)        *)
(* Admission queue : app/services/queue_service.py  (QueueManager)         *)
(* Failure handling: app/worker/error_handler.py, tasks_with_credits*.py   *)
(*                                                                         *)
(* Amounts are counted in hundredths of a minute, the precision of the     *)
(* credit_transactions columns (DECIMAL(10,2)).  Plan.max_minutes and      *)
(* UserSubscription.minutes_consumed are INTEGER columns holding whole     *)
(* minutes, so a stored consumed amount is always a multiple of Unit.      *)
(***************************************************************************)
EXTENDS Integers, Sequences, FiniteSets, TLC

(* ---- bounds of the model ---- *)
MaxTime == 2
MaxLedger == 4
MaxOverlap == 1
MaxRetryCount == 4              \* workers stop retrying after this many retries in all
MaxOverlapRetries == 0          \* queue calls overlap until more retries than this were made
MaxRunning == 2                 \* tasks handed out and not yet reported, in all
MaxFlowLedger == 13             \* ledger entries before a worker's deduction
MaxDrift == 1                   \* processing_count is not driven below -MaxDrift
TickSeconds == 1801             \* one step of the clock, just over the stale timeout
MAX_CONCURRENT_PROCESSING == 1  \* settings value of the modelled deployment
MaxEntries == 2                 \* ledger entries written, where entries are studied alone
MaxMinutes == 2                 \* whole minutes of balance, where entries are studied alone
MaxPatterns == 2                \* patterns that one error text contains, at most
BacklogTicks == 556             \* steps of the clock a backlog lasts (just over 10^6 s)

(* ---- program constants ---- *)
Unit == 100

Owners == {"u1", "u2"}
GrantIds == 1 .. 3
Jobs == {1, 2}
Clients == {"c1", "c2"}
DeductAmounts == {50, 200}
NoJob == 0
Callers == {"p1", "p2"}
Workers == {"w1", "w2"}
Errors == {{"timeout"}, {"invalid file"}}
RetryDelays == {5}
MAX_USER_UPLOADS_PER_MINUTE == 3
MAX_USER_UPLOADS_PER_DAY == 50
MAX_RETRY_ATTEMPTS == 3
PriorityWeight == 1000000
RateWindow == 60
StaleTimeout == 30 * 60
DaySeconds == 86400
MonthTicks == 1440    \* the length of a monthly plan, in steps of the clock

NoteOwner(j) == "u1"

Max(a, b) == IF a >= b THEN a ELSE b
Min(a, b) == IF a <= b THEN a ELSE b

VARIABLES
  grants,      \* user_subscriptions joined with plans: id -> row
  ledger,      \* credit_transactions in insertion (created_at) order
  now,         \* datetime.utcnow()
  roundMode,   \* how the server rounds a half when storing into an INTEGER column
  sess,        \* one database session per client: the call in progress
  charged,     \* per note: required_credits of its last committed deduction
  lastOp,      \* history: what the ledger call that just finished observed and did
  queue,            \* processing_queue rows, one per note at most (note_id is unique)
  ranking,          \* Redis sorted set neviso:processing_queue: member -> score
  processing_count, \* Redis key neviso:processing_count
  minute_key,       \* Redis key neviso:rate_limit:user:{id}: count and expiry time
  quota,            \* user_quotas rows
  call,             \* the QueueManager call each caller is in
  running,          \* per note: tasks handed out by get_next_task and not yet finished
  lastQ,            \* history: the call a client or a worker made that just returned
  note,             \* notes rows: status and retry_count
  worker,           \* each worker process: where it is in process_file_with_credits
  verdict           \* history: the last error classified and the retry decision made

ledgerVars == <<grants, ledger, roundMode, sess, charged, lastOp>>
queueVars == <<queue, ranking, processing_count, minute_key, quota, call, running, lastQ>>
flowVars == <<note, worker, verdict>>
vars == <<grants, ledger, now, roundMode, sess, charged, lastOp,
          queue, ranking, processing_count, minute_key, quota, call, running, lastQ,
          note, worker, verdict>>

(***************************************************************************)
(* Storing a fractional value into minutes_consumed (INTEGER): the server  *)
(* rounds to the nearest whole minute; a half goes to the even neighbour   *)
(* or away from zero depending on the platform.  x >= 0.                   *)
(***************************************************************************)
StoreMinutes(x, mode) ==
  LET q == x \div Unit
      r == x % Unit
  IN  IF 2 * r < Unit THEN q * Unit
      ELSE IF 2 * r > Unit THEN (q + 1) * Unit
      ELSE IF mode = "even" /\ q % 2 = 0 THEN q * Unit
      ELSE (q + 1) * Unit

(* a balance query that forgets the end_date condition *)
ActiveSubsIgnoringEndDate(gr, o, t) ==
  {g \in DOMAIN gr : gr[g].owner = o /\ gr[g].status = "active"}

(* WHERE user_id = :u AND status = active AND end_date > utcnow() *)
ActiveSubs(gr, o, t) ==
  {g \in DOMAIN gr : gr[g].owner = o /\ gr[g].status = "active" /\ gr[g].expiry > t}

(* ORDER BY end_date ASC (rows of equal end_date in id order) *)
Earlier(gr, a, b) ==
  \/ gr[a].expiry < gr[b].expiry
  \/ gr[a].expiry = gr[b].expiry /\ a < b

RECURSIVE OrderByEndDate(_, _)
OrderByEndDate(gr, S) ==
  IF S = {} THEN <<>>
  ELSE LET first == CHOOSE a \in S : \A b \in S \ {a} : Earlier(gr, a, b)
       IN  <<first>> \o OrderByEndDate(gr, S \ {first})

Remaining(row) == Max(0, row.total - row.consumed)

RECURSIVE SumRemaining(_, _, _)
SumRemaining(gr, subs, i) ==
  IF i > Len(subs) THEN 0
  ELSE Remaining(gr[subs[i]]) + SumRemaining(gr, subs, i + 1)

(* CreditManager.get_user_balance: total and per-subscription breakdown *)
get_user_balance(gr, o, t) ==
  LET subs == OrderByEndDate(gr, ActiveSubs(gr, o, t))
  IN  [total_minutes |-> SumRemaining(gr, subs, 1),
       subscriptions |-> [i \in 1 .. Len(subs) |->
                            [subscription_id |-> subs[i],
                             remaining_minutes |-> Remaining(gr[subs[i]]),
                             expires_at |-> gr[subs[i]].expiry]]]

(***************************************************************************)
(* CreditManager.deduct_credits, lines 322-361: the loop over the active   *)
(* subscriptions, oldest end_date first.  gr is the session's view of the  *)
(* rows (values as computed in Python, not yet stored).                    *)
(***************************************************************************)
RECURSIVE DeductWalk(_, _, _, _, _, _, _, _)
DeductWalk(gr, subs, i, remaining_to_deduct, current_balance, o, j, ents) ==
  IF i > Len(subs) \/ remaining_to_deduct <= 0
  THEN [gr |-> gr, ents |-> ents, left |-> remaining_to_deduct]
  ELSE LET sub == subs[i]
           available == Max(0, gr[sub].total - gr[sub].consumed)
       IN  IF available <= 0
           THEN DeductWalk(gr, subs, i + 1, remaining_to_deduct, current_balance, o, j, ents)
           ELSE LET deduct_from_this == Min(available, remaining_to_deduct)
                    transaction == [owner |-> o, grant |-> sub, job |-> j,
                                    type |-> "deduct",
                                    amount |-> deduct_from_this,
                                    before |-> current_balance,
                                    after |-> current_balance - deduct_from_this]
                IN  DeductWalk([gr EXCEPT ![sub].consumed = @ + deduct_from_this],
                               subs, i + 1,
                               remaining_to_deduct - deduct_from_this,
                               current_balance - deduct_from_this,
                               o, j, Append(ents, transaction))

(***************************************************************************)
(* CreditManager.refund_credits, lines 410-422: the deduct transactions of *)
(* (user, note), ORDER BY created_at DESC, as positions in the ledger.     *)
(***************************************************************************)
RECURSIVE DeductTransactions(_, _, _, _)
DeductTransactions(led, n, o, j) ==
  IF n = 0 THEN <<>>
  ELSE IF led[n].owner = o /\ led[n].job = j /\ led[n].type = "deduct"
       THEN <<led[n]>> \o DeductTransactions(led, n - 1, o, j)
       ELSE DeductTransactions(led, n - 1, o, j)

(* CreditManager.refund_credits, lines 424-472: the loop over them *)
RECURSIVE RefundWalk(_, _, _, _, _, _, _, _)
RefundWalk(gr, txs, i, remaining_to_refund, current_balance, o, j, ents) ==
  IF i > Len(txs) \/ remaining_to_refund <= 0
  THEN [gr |-> gr, ents |-> ents, left |-> remaining_to_refund]
  ELSE LET trans == txs[i]
           sub == trans.grant
       IN  IF sub \notin DOMAIN gr
           THEN RefundWalk(gr, txs, i + 1, remaining_to_refund, current_balance, o, j, ents)
           ELSE LET refund_to_this == Min(trans.amount, remaining_to_refund)
                    refund_transaction == [owner |-> o, grant |-> sub, job |-> j,
                                           type |-> "refund",
                                           amount |-> refund_to_this,
                                           before |-> current_balance,
                                           after |-> current_balance + refund_to_this]
                IN  RefundWalk([gr EXCEPT ![sub].consumed = Max(0, @ - refund_to_this)],
                               txs, i + 1,
                               remaining_to_refund - refund_to_this,
                               current_balance + refund_to_this,
                               o, j, Append(ents, refund_transaction))

(* a commit that adds the session's change to whatever the row holds *)
FlushIncrement(db, mem, snap, mode) ==
  [g \in DOMAIN db |->
     IF mem[g].consumed # snap[g].consumed
     THEN [db[g] EXCEPT !.consumed =
             StoreMinutes(db[g].consumed + (mem[g].consumed - snap[g].consumed), mode)]
     ELSE db[g]]

(***************************************************************************)
(* db.commit(): the unit of work writes minutes_consumed of every row the  *)
(* session changed (an UPDATE of the whole value, whatever the row holds   *)
(* by now) and the server stores it as an INTEGER number of minutes.       *)
(***************************************************************************)
Flush(db, mem, snap, mode) ==
  [g \in DOMAIN db |->
     IF mem[g].consumed # snap[g].consumed
     THEN [db[g] EXCEPT !.consumed = StoreMinutes(mem[g].consumed, mode)]
     ELSE db[g]]

(* ---------------------------------------------------------------------- *)
(* State after construction                                                *)
(* ---------------------------------------------------------------------- *)
Idle == [op |-> "idle", owner |-> "u1", amount |-> 0, job |-> NoJob,
         bal |-> 0, snap |-> <<>>, seen |-> 0, t |-> 0,
         follows |-> FALSE, pre |-> 0]

NoOp == [kind |-> "none", owner |-> "u1", job |-> NoJob, amount |-> 0,
         raised |-> FALSE, isolated |-> TRUE, overlapped |-> FALSE,
         balSeen |-> 0, balBefore |-> 0, balAfter |-> 0,
         grantsBefore |-> <<>>, lenBefore |-> 0, wrote |-> <<>>,
         follows |-> FALSE, pre |-> 0]

(* the subscriptions that exist when the model starts: a small one about  *)
(* to end, a larger one (running, cancelled, or past its end_date and not  *)
(* yet swept), and one of another user                                     *)
InitGrants ==
  { <<[owner |-> "u1", total |-> Unit, consumed |-> 0, expiry |-> 2, status |-> "active"],
      [owner |-> "u1", total |-> 2 * Unit, consumed |-> 0, expiry |-> e2, status |-> s2],
      [owner |-> "u2", total |-> Unit, consumed |-> 0, expiry |-> 5, status |-> "active"]>> :
      <<e2, s2>> \in {<<5, "active">>, <<5, "cancelled">>, <<0, "active">>} }

(* no processing_queue row for the note *)
NoRow == [status |-> "none", priority |-> 0, retry_count |-> 0, started_at |-> 0]

NoMember == [member |-> FALSE, score |-> 0]

QIdle == [op |-> "idle", job |-> NoJob, priority |-> 0, stale |-> {}, snap |-> <<>>]

NoQ == [op |-> "none", job |-> NoJob, result |-> ""]

(* no error classified yet *)
NoVerdict == [error |-> {}, current_retry_count |-> 0, max_retries |-> 0,
              category |-> "", retryable |-> FALSE, retry |-> FALSE, made |-> FALSE]

WIdle == [pc |-> "idle", job |-> NoJob, error |-> {}, attempt |-> 0,
          deducted |-> 0, refunded |-> 0]

(* an empty queue, notes just created, no worker busy *)
QueueStart ==
  /\ note = [j \in Jobs |-> [status |-> "processing", retry_count |-> 0]]
  /\ worker = [w \in Workers |-> WIdle]
  /\ verdict = NoVerdict
  /\ queue = [j \in Jobs |-> NoRow]
  /\ ranking = [j \in Jobs |-> NoMember]
  /\ processing_count = 0
  /\ call = [p \in Callers |-> QIdle]
  /\ running = [j \in Jobs |-> 0]
  /\ lastQ = NoQ

NoUploads ==
  /\ minute_key = [o \in Owners |-> [n |-> 0, exp |-> 0]]
  /\ quota = [o \in Owners |-> [exists |-> FALSE, daily_upload_count |-> 0, last_reset_at |-> 0]]

LedgerInit ==
  /\ QueueStart
  /\ NoUploads
  /\ grants \in InitGrants
  /\ ledger = <<>>
  /\ now = 1
  /\ roundMode \in {"even", "away"}
  /\ sess = [c \in Clients |-> Idle]
  /\ charged = [j \in Jobs |-> 0]
  /\ lastOp = NoOp

(* ---------------------------------------------------------------------- *)
(* Ledger operations                                                       *)
(* ---------------------------------------------------------------------- *)
Balance(o) == get_user_balance(grants, o, now).total_minutes

(* amounts a caller may ask for: the fixed set, the whole balance, and one *)
(* hundredth more than the balance                                         *)
AmountsFor(o) == DeductAmounts \cup {Balance(o), Balance(o) + 1}

(* sessions are interchangeable: the second one is used only while the     *)
(* first is busy (and only among the first MaxOverlap ledger entries)      *)
Free(c) ==
  /\ sess[c].op = "idle"
  /\ c = "c2" => sess["c1"].op # "idle" /\ Len(ledger) < MaxOverlap

(* another call of the same owner committed a deduction since `seen` *)
DeductSince(o, seen) ==
  \E n \in (seen + 1) .. Len(ledger) : ledger[n].owner = o /\ ledger[n].type = "deduct"

(* a deduction that allocates what it can, finds the rest missing only     *)
(* after the loop, and raises without rolling back                         *)
DeductInsufficientAfterLoop(c, o, amt, j) ==
  /\ Free(c)
  /\ amt > 0
  /\ Balance(o) < amt
  /\ LET subs == OrderByEndDate(grants, ActiveSubs(grants, o, now))
         w == DeductWalk(grants, subs, 1, amt, Balance(o), o, j, <<>>)
     IN  /\ grants' = Flush(grants, w.gr, grants, roundMode)
         /\ ledger' = ledger \o w.ents
  /\ lastOp' = [NoOp EXCEPT !.kind = "deduct", !.owner = o, !.raised = TRUE,
                            !.balSeen = Balance(o),
                            !.balBefore = Balance(o), !.balAfter = Balance(o),
                            !.grantsBefore = grants, !.lenBefore = Len(ledger)]
  /\ UNCHANGED <<now, roundMode, sess, charged>>

(* deduct_credits, lines 292-305 and 369-371: balance below the amount ->  *)
(* rollback and raise InsufficientCreditsError                             *)
DeductInsufficient(c, o, amt, j) ==
  /\ Free(c)
  /\ amt > 0
  /\ Balance(o) < amt
  /\ lastOp' = [NoOp EXCEPT !.kind = "deduct", !.owner = o, !.raised = TRUE,
                            !.balSeen = Balance(o),
                            !.balBefore = Balance(o), !.balAfter = Balance(o),
                            !.grantsBefore = grants, !.lenBefore = Len(ledger)]
  /\ UNCHANGED <<grants, ledger, now, roundMode, sess, charged>>

(* deduct_credits, lines 292-320: the reads of a deduction that passes the check *)
DeductBegin(c, o, amt, j) ==
  /\ Free(c)
  /\ Len(ledger) < MaxLedger
  /\ amt > 0
  /\ Balance(o) >= amt
  /\ sess' = [sess EXCEPT ![c] = [op |-> "deduct", owner |-> o, amount |-> amt, job |-> j,
                                  bal |-> Balance(o), snap |-> grants,
                                  seen |-> Len(ledger), t |-> now,
                                  follows |-> FALSE, pre |-> 0]]
  /\ lastOp' = NoOp
  /\ UNCHANGED <<grants, ledger, now, roundMode, charged>>

(* deduct_credits, lines 322-367: the loop and the commit *)
DeductCommit(c) ==
  /\ sess[c].op = "deduct"
  /\ LET s == sess[c]
         subs == OrderByEndDate(s.snap, ActiveSubs(s.snap, s.owner, s.t))
         w == DeductWalk(s.snap, subs, 1, s.amount, s.bal, s.owner, s.job, <<>>)
         stored == Flush(grants, w.gr, s.snap, roundMode)
     IN  /\ grants' = stored
         /\ ledger' = ledger \o w.ents
         /\ charged' = [charged EXCEPT ![s.job] = s.amount]
         /\ lastOp' = [kind |-> "deduct", owner |-> s.owner, job |-> s.job,
                       amount |-> s.amount, raised |-> FALSE,
                       isolated |-> (grants = s.snap /\ now = s.t /\ Len(ledger) = s.seen),
                       overlapped |-> DeductSince(s.owner, s.seen),
                       balSeen |-> s.bal,
                       balBefore |-> Balance(s.owner),
                       balAfter |-> get_user_balance(stored, s.owner, now).total_minutes,
                       grantsBefore |-> grants, lenBefore |-> Len(ledger),
                       wrote |-> w.ents, follows |-> FALSE, pre |-> 0]
  /\ sess' = [sess EXCEPT ![c] = Idle]
  /\ UNCHANGED <<now, roundMode>>

(* history: this refund is called right after a deduct of the same user,   *)
(* note and amount that ran alone                                          *)
FollowsDeduct(o, amt, j) ==
  /\ lastOp.kind = "deduct" /\ ~lastOp.raised /\ lastOp.isolated
  /\ lastOp.owner = o /\ lastOp.job = j /\ lastOp.amount = amt

(* refund_credits, lines 401-422: the reads (balance, the note's deductions) *)
RefundBegin(c, o, amt, j) ==
  /\ Free(c)
  /\ Len(ledger) < MaxLedger
  /\ amt > 0
  /\ sess' = [sess EXCEPT ![c] = [op |-> "refund", owner |-> o, amount |-> amt, job |-> j,
                                  bal |-> Balance(o), snap |-> grants,
                                  seen |-> Len(ledger), t |-> now,
                                  follows |-> FollowsDeduct(o, amt, j),
                                  pre |-> lastOp.balSeen]]
  /\ lastOp' = NoOp
  /\ UNCHANGED <<grants, ledger, now, roundMode, charged>>

(* refund_credits, lines 424-478: the loop and the commit *)
RefundCommit(c) ==
  /\ sess[c].op = "refund"
  /\ LET s == sess[c]
         txs == DeductTransactions(ledger, s.seen, s.owner, s.job)
         w == RefundWalk(s.snap, txs, 1, s.amount, s.bal, s.owner, s.job, <<>>)
         stored == Flush(grants, w.gr, s.snap, roundMode)
     IN  /\ grants' = stored
         /\ ledger' = ledger \o w.ents
         /\ lastOp' = [kind |-> "refund", owner |-> s.owner, job |-> s.job,
                       amount |-> s.amount, raised |-> FALSE,
                       isolated |-> (grants = s.snap /\ now = s.t /\ Len(ledger) = s.seen),
                       overlapped |-> DeductSince(s.owner, s.seen),
                       balSeen |-> s.bal,
                       balBefore |-> Balance(s.owner),
                       balAfter |-> get_user_balance(stored, s.owner, now).total_minutes,
                       grantsBefore |-> grants, lenBefore |-> Len(ledger),
                       wrote |-> w.ents, follows |-> s.follows, pre |-> s.pre]
  /\ sess' = [sess EXCEPT ![c] = Idle]
  /\ UNCHANGED <<now, roundMode, charged>>

(* the clock *)
Tick ==
  /\ now < MaxTime
  /\ now' = now + 1
  /\ lastOp' = NoOp
  /\ UNCHANGED <<grants, ledger, roundMode, sess, charged>>

(* cleanup_expired_subscriptions: active subscriptions past end_date -> expired *)
cleanup_expired_subscriptions ==
  /\ \E g \in GrantIds : grants[g].status = "active" /\ grants[g].expiry < now
  /\ grants' = [g \in GrantIds |->
                  IF grants[g].status = "active" /\ grants[g].expiry < now
                  THEN [grants[g] EXCEPT !.status = "expired"]
                  ELSE grants[g]]
  /\ lastOp' = NoOp
  /\ UNCHANGED <<ledger, now, roundMode, sess, charged>>

LedgerNext ==
  \/ \E c \in Clients, j \in Jobs : \E amt \in AmountsFor(NoteOwner(j)) :
        DeductInsufficient(c, NoteOwner(j), amt, j) /\ UNCHANGED <<queueVars, flowVars>>
  \/ \E c \in Clients, j \in Jobs : \E amt \in AmountsFor(NoteOwner(j)) :
        DeductBegin(c, NoteOwner(j), amt, j) /\ UNCHANGED <<queueVars, flowVars>>
  \/ \E c \in Clients : DeductCommit(c) /\ UNCHANGED <<queueVars, flowVars>>
  \/ \E c \in Clients, j \in Jobs :
        RefundBegin(c, NoteOwner(j), charged[j], j) /\ UNCHANGED <<queueVars, flowVars>>
  \/ \E c \in Clients : RefundCommit(c) /\ UNCHANGED <<queueVars, flowVars>>
  \/ Tick /\ UNCHANGED <<queueVars, flowVars>>
  \/ cleanup_expired_subscriptions /\ UNCHANGED <<queueVars, flowVars>>

LedgerSpec == LedgerInit /\ [][LedgerNext]_vars

(* ---------------------------------------------------------------------- *)
(* Properties of the ledger                                                *)
(* ---------------------------------------------------------------------- *)
RECURSIVE SumAmounts(_, _)
SumAmounts(ents, n) ==
  IF n = 0 THEN 0 ELSE ents[n].amount + SumAmounts(ents, n - 1)

RECURSIVE SumOfType(_, _, _, _)
SumOfType(led, n, j, ty) ==
  IF n = 0 THEN 0
  ELSE (IF led[n].job = j /\ led[n].type = ty THEN led[n].amount ELSE 0)
       + SumOfType(led, n - 1, j, ty)

RECURSIVE SumRemainingOver(_, _)
SumRemainingOver(gr, S) ==
  IF S = {} THEN 0
  ELSE LET g == CHOOSE x \in S : TRUE
       IN  Max(0, gr[g].total - gr[g].consumed) + SumRemainingOver(gr, S \ {g})

Counted(o) ==
  {g \in GrantIds : grants[g].owner = o /\ grants[g].status = "active" /\ grants[g].expiry > now}

DeductDone == lastOp.kind = "deduct" /\ ~lastOp.raised
RefundDone == lastOp.kind = "refund"

(* C1: deduct is atomic per owner.  A deduction never commits on a balance *)
(* check that another deduction of the same owner has outdated in the      *)
(* meantime, and what it takes fits into the balance the store holds when  *)
(* it commits, so the successful deductions never exceed the credit.       *)
C1_DeductAtomic ==
  DeductDone => ~lastOp.overlapped

(* C2: balance(owner) is the sum of max(0, total - consumed) over exactly  *)
(* the owner's grants that are active with expiry > now, and the breakdown *)
(* lists those grants by ascending expiry.                                 *)
C2_BalanceIsSum ==
  \A o \in Owners :
    LET b == get_user_balance(grants, o, now)
        n == Len(b.subscriptions)
    IN  /\ b.total_minutes = SumRemainingOver(grants, Counted(o))
        /\ {b.subscriptions[i].subscription_id : i \in 1 .. n} = Counted(o)
        /\ n = Cardinality(Counted(o))
        /\ \A i \in 1 .. n : \A k \in i .. n :
              b.subscriptions[i].expires_at <= b.subscriptions[k].expires_at

C2_Witness ==
  /\ Cardinality(Counted("u1")) = 1
  /\ \E g \in Counted("u1") : grants[g].consumed > 0 /\ grants[g].consumed < grants[g].total
  /\ \E g \in GrantIds \ Counted("u1") :
        grants[g].owner = "u1" /\ grants[g].consumed < grants[g].total

(* C3: a deduct of more than the balance raises and changes nothing (no    *)
(* grant, no ledger entry); a deduct of exactly the balance, run on its    *)
(* own, succeeds and leaves balance 0.                                     *)
C3_InsufficientOrExact ==
  /\ (lastOp.kind = "deduct" /\ lastOp.raised)
        => grants = lastOp.grantsBefore /\ Len(ledger) = lastOp.lenBefore
  /\ (DeductDone /\ lastOp.isolated /\ lastOp.amount = lastOp.balSeen)
        => lastOp.balAfter = 0 /\ Balance(lastOp.owner) = 0

C3_Witness ==
  lastOp.kind = "deduct" /\ lastOp.raised /\ lastOp.balSeen > 0

C3_WitnessExact ==
  DeductDone /\ lastOp.isolated /\ lastOp.amount = lastOp.balSeen /\ Len(lastOp.wrote) = 2

(* C4: a successful deduct, run on its own, allocates exactly the amount:  *)
(* it takes min(available, remaining) from the active unexpired grants in  *)
(* ascending expiry order, one deduct entry per touched grant, the entries *)
(* sum to the amount, every touched grant's consumed amount grows by its   *)
(* entry, and the balance drops by the amount.                             *)
EntryOf(g) ==
  {k \in 1 .. Len(lastOp.wrote) : lastOp.wrote[k].grant = g}

Taken(g) ==
  IF EntryOf(g) = {} THEN 0 ELSE lastOp.wrote[CHOOSE k \in EntryOf(g) : TRUE].amount

C4_WalkShape ==
  LET w == lastOp.wrote
      before == lastOp.grantsBefore
      elig == ActiveSubs(before, lastOp.owner, now)
  IN  /\ SumAmounts(w, Len(w)) = lastOp.amount
      /\ \A k \in 1 .. Len(w) :
            /\ w[k].type = "deduct" /\ w[k].grant \in elig
            /\ w[k].amount = Min(Remaining(before[w[k].grant]),
                                 lastOp.amount - SumAmounts(w, k - 1))
            /\ w[k].amount > 0
      /\ \A g \in elig : Cardinality(EntryOf(g)) <= 1
      /\ \A k \in 1 .. Len(w) : \A g \in elig :
            Earlier(before, g, w[k].grant) => Taken(g) = Remaining(before[g])

C4_AllocatesExactly ==
  (DeductDone /\ lastOp.isolated) =>
     /\ C4_WalkShape
     /\ \A g \in GrantIds :
           grants[g].consumed = lastOp.grantsBefore[g].consumed + Taken(g)
     /\ lastOp.balAfter = lastOp.balBefore - lastOp.amount

(* C5: deduct(owner, X, job) followed at once by refund(owner, X, job)     *)
(* restores balance(owner) to its value before the deduct.                 *)
C5_RoundTrip ==
  (RefundDone /\ lastOp.follows /\ lastOp.isolated) => lastOp.balAfter = lastOp.pre

(* C6: a job is never refunded twice: the refund entries of a job never    *)
(* add up to more than its deduct entries.                                 *)
C6_RefundOnce ==
  \A j \in Jobs :
    SumOfType(ledger, Len(ledger), j, "refund") <= SumOfType(ledger, Len(ledger), j, "deduct")

(* ====================================================================== *)
(* Admission queue: QueueManager                                           *)
(* ====================================================================== *)
Timestamp(t) == t * TickSeconds
Day(t) == Timestamp(t) \div DaySeconds

(* plans.features of the plan behind each subscription *)
PlanPriority(g) == CASE g = 1 -> "medium" [] g = 2 -> "high" [] OTHER -> "none"

(* the orders in which an unordered query may return a set of rows *)
Orderings(S) ==
  {f \in [1 .. Cardinality(S) -> S] : \A a, b \in 1 .. Cardinality(S) : f[a] = f[b] => a = b}

(* get_user_priority, lines 204-214: the first subscription naming a tier decides *)
RECURSIVE FirstTier(_, _)
FirstTier(subs, i) ==
  IF i > Len(subs) THEN 1
  ELSE IF PlanPriority(subs[i]) = "high" THEN 2
  ELSE IF PlanPriority(subs[i]) = "medium" THEN 1
  ELSE FirstTier(subs, i + 1)

(* get_user_priority: the values a call may return (0 without an active    *)
(* subscription, and 0 from the handler of any error while reading plans)  *)
get_user_priority(gr, o, t) ==
  IF ActiveSubs(gr, o, t) = {} THEN {0}
  ELSE {FirstTier(subs, 1) : subs \in Orderings(ActiveSubs(gr, o, t))} \cup {0}

(* redis GET of the per-minute key: an expired key reads as absent *)
MinuteCount(o) ==
  IF minute_key[o].n > 0 /\ Timestamp(now) < minute_key[o].exp THEN minute_key[o].n ELSE 0

(* check_user_rate_limit, lines 97-106: the daily counters are reset on a new day *)
QuotaChecked(o) ==
  IF quota[o].exists /\ quota[o].last_reset_at < Day(now)
  THEN [quota[o] EXCEPT !.daily_upload_count = 0, !.last_reset_at = Day(now)]
  ELSE quota[o]

MinuteLimited(o) == MinuteCount(o) >= MAX_USER_UPLOADS_PER_MINUTE

DailyLimited(o) ==
  QuotaChecked(o).exists /\ QuotaChecked(o).daily_upload_count >= MAX_USER_UPLOADS_PER_DAY

RECURSIVE SumOver(_, _)
SumOver(f, S) ==
  IF S = {} THEN 0
  ELSE LET j == CHOOSE x \in S : TRUE IN f[j] + SumOver(f, S \ {j})

(* retries made so far, over all rows *)
Retries == SumOver([j \in Jobs |-> queue[j].retry_count], Jobs)

(* A call is modelled in two steps where it reads and later writes (its    *)
(* reads, then its writes); a call that only writes is one step.  Callers  *)
(* are interchangeable: the second one starts a call only while the first  *)
(* is inside one (and only until MaxOverlapRetries retries were made).     *)
Starts(p) ==
  /\ call[p].op = "idle"
  /\ p = "p2" => call["p1"].op # "idle" /\ Retries <= MaxOverlapRetries

Returned(op, j, result) == [op |-> op, job |-> j, result |-> result]

(* add_to_queue, line 245: check_user_rate_limit raises RateLimitExceededError *)
AddRateLimited(j) ==
  /\ MinuteLimited(NoteOwner(j)) \/ DailyLimited(NoteOwner(j))
  /\ quota' = IF MinuteLimited(NoteOwner(j)) THEN quota
              ELSE [quota EXCEPT ![NoteOwner(j)] = QuotaChecked(NoteOwner(j))]
  /\ lastQ' = Returned("add", j, "rate_limited")
  /\ UNCHANGED <<queue, ranking, processing_count, minute_key, call, running>>

(* add_to_queue, lines 250-262: the note already has a row, which is returned *)
AddExisting(j) ==
  /\ ~MinuteLimited(NoteOwner(j)) /\ ~DailyLimited(NoteOwner(j))
  /\ queue[j].status # "none"
  /\ quota' = [quota EXCEPT ![NoteOwner(j)] = QuotaChecked(NoteOwner(j))]
  /\ lastQ' = Returned("add", j, "existing")
  /\ UNCHANGED <<queue, ranking, processing_count, minute_key, call, running>>

(* add_to_queue, lines 245-254: the checks pass and no row is found *)
AddBegin(p, j) ==
  /\ Starts(p)
  /\ ~MinuteLimited(NoteOwner(j)) /\ ~DailyLimited(NoteOwner(j))
  /\ queue[j].status = "none"
  /\ quota' = [quota EXCEPT ![NoteOwner(j)] = QuotaChecked(NoteOwner(j))]
  /\ \E pr \in get_user_priority(grants, NoteOwner(j), now) :
        call' = [call EXCEPT ![p] = [QIdle EXCEPT !.op = "add", !.job = j, !.priority = pr]]
  /\ lastQ' = NoQ
  /\ UNCHANGED <<queue, ranking, processing_count, minute_key, running>>

(* add_to_queue, lines 274 and 303-306: the INSERT violates the unique key *)
(* on note_id; the handler rolls back and raises QueueError                *)
AddConflict(p) ==
  /\ call[p].op = "add"
  /\ queue[call[p].job].status # "none"
  /\ call' = [call EXCEPT ![p] = QIdle]
  /\ lastQ' = Returned("add", call[p].job, "error")
  /\ UNCHANGED <<queue, ranking, processing_count, minute_key, quota, running>>

(* add_to_queue, lines 265-299: INSERT and commit, zadd,                   *)
(* increment_user_counters, return                                         *)
AddCommit(p) ==
  /\ call[p].op = "add"
  /\ queue[call[p].job].status = "none"
  /\ LET j == call[p].job
         o == NoteOwner(j)
     IN  /\ queue' = [queue EXCEPT ![j] = [NoRow EXCEPT !.status = "waiting",
                                                        !.priority = call[p].priority]]
         /\ ranking' = [ranking EXCEPT ![j] =
                          [member |-> TRUE,
                           score |-> call[p].priority * PriorityWeight - Timestamp(now)]]
         /\ minute_key' = [minute_key EXCEPT ![o] =
                             [n |-> MinuteCount(o) + 1, exp |-> Timestamp(now) + RateWindow]]
         /\ quota' = [quota EXCEPT ![o] =
                        IF quota[o].exists
                        THEN [quota[o] EXCEPT !.daily_upload_count = @ + 1]
                        ELSE [exists |-> TRUE, daily_upload_count |-> 1,
                              last_reset_at |-> Day(now)]]
         /\ lastQ' = Returned("add", j, "queued")
  /\ call' = [call EXCEPT ![p] = QIdle]
  /\ UNCHANGED <<processing_count, running>>

(* zrevrange(QUEUE_KEY, 0, 0): the member of highest score; among equal    *)
(* scores Redis orders members as strings and the reverse range returns    *)
(* the greatest                                                            *)
Members == {j \in Jobs : ranking[j].member}

Top ==
  CHOOSE j \in Members : \A k \in Members :
    \/ ranking[j].score > ranking[k].score
    \/ ranking[j].score = ranking[k].score /\ j >= k

(* get_next_task, lines 344-355: at capacity, or nothing ranked -> None *)
GetNone ==
  /\ processing_count >= MAX_CONCURRENT_PROCESSING \/ Members = {}
  /\ lastQ' = NoQ
  /\ UNCHANGED <<queue, ranking, processing_count, minute_key, quota, call, running>>

(* get_next_task, lines 357-372: the top member has no waiting row; it is  *)
(* removed from the ranking and the call starts over                       *)
GetMissing ==
  /\ processing_count < MAX_CONCURRENT_PROCESSING /\ Members # {}
  /\ queue[Top].status # "waiting"
  /\ ranking' = [ranking EXCEPT ![Top] = NoMember]
  /\ lastQ' = NoQ
  /\ UNCHANGED <<queue, processing_count, minute_key, quota, call, running>>

(* get_next_task, lines 344-368: below capacity and the top member has a   *)
(* waiting row                                                             *)
GetFound(p) ==
  /\ Starts(p)
  /\ SumOver(running, Jobs) < MaxRunning
  /\ processing_count < MAX_CONCURRENT_PROCESSING /\ Members # {}
  /\ queue[Top].status = "waiting"
  /\ call' = [call EXCEPT ![p] = [QIdle EXCEPT !.op = "get", !.job = Top]]
  /\ lastQ' = NoQ
  /\ UNCHANGED <<queue, ranking, processing_count, minute_key, quota, running>>

(* get_next_task, lines 374-392: status and started_at are written, then   *)
(* zrem and incr; the task is handed to a worker (process_queue, line 322) *)
GetCommit(p) ==
  /\ call[p].op = "get"
  /\ queue' = [queue EXCEPT ![call[p].job] =
                 [@ EXCEPT !.status = "processing", !.started_at = now]]
  /\ ranking' = [ranking EXCEPT ![call[p].job] = NoMember]
  /\ processing_count' = processing_count + 1
  /\ running' = [running EXCEPT ![call[p].job] = @ + 1]
  /\ call' = [call EXCEPT ![p] = QIdle]
  /\ lastQ' = NoQ
  /\ UNCHANGED <<minute_key, quota>>

(* mark_completed, lines 417-436, called by the worker that ran the task:  *)
(* the row, if any, gets its final status; decr, and a negative counter is *)
(* set to 0                                                                *)
mark_completed(j, success) ==
  /\ running[j] > 0
  /\ running' = [running EXCEPT ![j] = @ - 1]
  /\ queue' = [queue EXCEPT ![j] =
                 IF @.status = "none" THEN @
                 ELSE [@ EXCEPT !.status = IF success THEN "completed" ELSE "failed"]]
  /\ processing_count' = Max(0, processing_count - 1)
  /\ lastQ' = Returned("mark", j, IF success THEN "completed" ELSE "failed")
  /\ UNCHANGED <<ranking, minute_key, quota, call>>

(* a retry that raises the priority instead of lowering it *)
RetriedRaisingPriority(row) ==
  [row EXCEPT !.retry_count = @ + 1, !.status = "waiting", !.priority = @ + 1]

(* the row as retry_task writes it, lines 465-473, from the row it read *)
Retried(row) ==
  [row EXCEPT !.retry_count = @ + 1, !.status = "waiting", !.priority = Max(0, @ - 1)]

(* the score of a retried member, lines 476-477 *)
RetryScore(priority, delay) == priority * PriorityWeight - (Timestamp(now) + delay)

(* retry_task, lines 454-486, called by the worker that ran the task: the  *)
(* row is written, the member is added at the delayed timestamp, decr      *)
retry_task(j, delay) ==
  /\ running[j] > 0
  /\ running' = [running EXCEPT ![j] = @ - 1]
  /\ queue[j].status # "none"
  /\ Retries < MaxRetryCount
  /\ processing_count > -MaxDrift
  /\ queue' = [queue EXCEPT ![j] = Retried(@)]
  /\ ranking' = [ranking EXCEPT ![j] =
                   [member |-> TRUE, score |-> RetryScore(Retried(queue[j]).priority, delay)]]
  /\ processing_count' = processing_count - 1
  /\ lastQ' = Returned("retry", j, queue[j].status)
  /\ UNCHANGED <<minute_key, quota, call>>

(* the worker process running a task dies before it reports to the queue *)
WorkerLost(j) ==
  /\ running[j] > 0
  /\ running' = [running EXCEPT ![j] = @ - 1]
  /\ lastQ' = NoQ
  /\ UNCHANGED <<queue, ranking, processing_count, minute_key, quota, call>>

(* cleanup_stale_tasks, lines 549-559: rows in processing started before   *)
(* the timeout                                                             *)
StaleTasks ==
  {j \in Jobs : /\ queue[j].status = "processing"
                /\ Timestamp(queue[j].started_at) < Timestamp(now) - StaleTimeout}

(* cleanup_stale_tasks finds nothing stale *)
SweepNone ==
  /\ StaleTasks = {}
  /\ lastQ' = NoQ
  /\ UNCHANGED <<queue, ranking, processing_count, minute_key, quota, call, running>>

(* cleanup_stale_tasks, lines 549-559: the stale rows are loaded *)
SweepBegin(p) ==
  /\ Starts(p)
  /\ StaleTasks # {}
  /\ call' = [call EXCEPT ![p] = [QIdle EXCEPT !.op = "sweep", !.stale = StaleTasks,
                                               !.snap = [j \in StaleTasks |-> queue[j]]]]
  /\ lastQ' = NoQ
  /\ UNCHANGED <<queue, ranking, processing_count, minute_key, quota, running>>

(* what remains of the sweep after one task *)
SweepRest(p, j) ==
  IF call[p].stale = {j} THEN QIdle ELSE [call[p] EXCEPT !.stale = @ \ {j}]

(* cleanup_stale_tasks, lines 561-567: retry_task(note_id, 120) on a row   *)
(* loaded with retry_count below the limit; the loaded object is written   *)
SweepRetry(p, j) ==
  /\ call[p].op = "sweep" /\ j \in call[p].stale
  /\ call[p].snap[j].retry_count < MAX_RETRY_ATTEMPTS
  /\ Retries <= MaxRetryCount
  /\ queue' = [queue EXCEPT ![j] =
                 [@ EXCEPT !.retry_count = Retried(call[p].snap[j]).retry_count,
                           !.status = "waiting",
                           !.priority = Retried(call[p].snap[j]).priority]]
  /\ ranking' = [ranking EXCEPT ![j] =
                   [member |-> TRUE,
                    score |-> RetryScore(Retried(call[p].snap[j]).priority, 120)]]
  /\ processing_count' = processing_count - 1
  /\ call' = [call EXCEPT ![p] = SweepRest(p, j)]
  /\ lastQ' = NoQ
  /\ UNCHANGED <<minute_key, quota, running>>

(* cleanup_stale_tasks, lines 568-575: mark_completed(note_id, False) on a *)
(* row loaded with retry_count at the limit                                *)
SweepFail(p, j) ==
  /\ call[p].op = "sweep" /\ j \in call[p].stale
  /\ call[p].snap[j].retry_count >= MAX_RETRY_ATTEMPTS
  /\ queue' = [queue EXCEPT ![j].status = "failed"]
  /\ processing_count' = Max(0, processing_count - 1)
  /\ call' = [call EXCEPT ![p] = SweepRest(p, j)]
  /\ lastQ' = NoQ
  /\ UNCHANGED <<ranking, minute_key, quota, running>>

(* the clock of the queue: a call does not span a step of the clock *)
QueueTick ==
  /\ \A p \in Callers : call[p].op = "idle"
  /\ Tick

(* the user has uploaded other notes within the current minute, fewer than *)
(* the limit                                                               *)
EarlierUploads ==
  \E n \in 1 .. MAX_USER_UPLOADS_PER_MINUTE - 1 :
    /\ minute_key = [o \in Owners |->
                       IF o = "u1" THEN [n |-> n, exp |-> Timestamp(1) + RateWindow]
                       ELSE [n |-> 0, exp |-> 0]]
    /\ quota = [o \in Owners |->
                  IF o = "u1" THEN [exists |-> TRUE, daily_upload_count |-> n,
                                    last_reset_at |-> Day(1)]
                  ELSE [exists |-> FALSE, daily_upload_count |-> 0, last_reset_at |-> 0]]

(* an empty queue; the owner of the notes holds one running subscription   *)
(* (the rounding of the ledger columns is not read by the queue)           *)
QueueInit ==
  /\ QueueStart
  /\ EarlierUploads
  /\ grants \in {gr \in InitGrants : gr[2].status = "cancelled"}
  /\ ledger = <<>>
  /\ now = 1
  /\ roundMode = "even"
  /\ sess = [c \in Clients |-> Idle]
  /\ charged = [j \in Jobs |-> 0]
  /\ lastOp = NoOp

QueueNext ==
  \/ \E j \in Jobs : AddRateLimited(j) /\ UNCHANGED <<ledgerVars, now, flowVars>>
  \/ \E j \in Jobs : AddExisting(j) /\ UNCHANGED <<ledgerVars, now, flowVars>>
  \/ \E p \in Callers, j \in Jobs : AddBegin(p, j) /\ UNCHANGED <<ledgerVars, now, flowVars>>
  \/ \E p \in Callers : AddConflict(p) /\ UNCHANGED <<ledgerVars, now, flowVars>>
  \/ \E p \in Callers : AddCommit(p) /\ UNCHANGED <<ledgerVars, now, flowVars>>
  \/ GetNone /\ UNCHANGED <<ledgerVars, now, flowVars>>
  \/ GetMissing /\ UNCHANGED <<ledgerVars, now, flowVars>>
  \/ \E p \in Callers : GetFound(p) /\ UNCHANGED <<ledgerVars, now, flowVars>>
  \/ \E p \in Callers : GetCommit(p) /\ UNCHANGED <<ledgerVars, now, flowVars>>
  \/ \E j \in Jobs, success \in BOOLEAN : mark_completed(j, success) /\ UNCHANGED <<ledgerVars, now, flowVars>>
  \/ \E j \in Jobs, delay \in RetryDelays : retry_task(j, delay) /\ UNCHANGED <<ledgerVars, now, flowVars>>
  \/ \E j \in Jobs : WorkerLost(j) /\ UNCHANGED <<ledgerVars, now, flowVars>>
  \/ SweepNone /\ UNCHANGED <<ledgerVars, now, flowVars>>
  \/ \E p \in Callers : SweepBegin(p) /\ UNCHANGED <<ledgerVars, now, flowVars>>
  \/ \E p \in Callers, j \in Jobs : SweepRetry(p, j) /\ UNCHANGED <<ledgerVars, now, flowVars>>
  \/ \E p \in Callers, j \in Jobs : SweepFail(p, j) /\ UNCHANGED <<ledgerVars, now, flowVars>>
  \/ QueueTick /\ UNCHANGED <<queueVars, flowVars>>

QueueSpec == QueueInit /\ [][QueueNext]_vars

(* ---------------------------------------------------------------------- *)
(* Properties of the queue                                                 *)
(* ---------------------------------------------------------------------- *)
(* the step is a call of retry_task on note j *)
RetryStep(j) ==
  /\ lastQ'.op = "retry" /\ lastQ'.job = j
  /\ running'[j] = running[j] - 1

C10_EnqueueIdempotent ==
  (lastQ.op = "add" /\ lastQ.result # "queued" /\ queue[lastQ.job].status # "none")
     => lastQ.result = "existing"

(* the entries in status processing *)
Processing == {j \in Jobs : queue[j].status = "processing"}

(* C11: the number of entries in processing never exceeds                  *)
(* MAX_CONCURRENT_PROCESSING.                                              *)
C11_ConcurrencyCap == Cardinality(Processing) <= MAX_CONCURRENT_PROCESSING

(* the step hands the task of note j to a worker (get_next_task returns it) *)
DispatchStep(j) == running'[j] = running[j] + 1

(* C12: get_next_task returns a task only for an entry that is waiting     *)
(* when the call claims it, so every move from waiting to processing hands *)
(* out one task.                                                           *)
C12_NoDoubleDispatch ==
  [][\A j \in Jobs : DispatchStep(j) => queue[j].status = "waiting"]_vars

(* the moves of an entry's status that the state machine allows *)
Allowed ==
  {<<"none", "waiting">>, <<"waiting", "processing">>, <<"processing", "completed">>,
   <<"processing", "failed">>, <<"processing", "waiting">>}

(* C14: the status of an entry changes only along waiting -> processing,   *)
(* processing -> completed or failed, and processing -> waiting; completed *)
(* and failed are final.                                                   *)
C14_StateMachine ==
  [][\A j \in Jobs : queue'[j].status # queue[j].status =>
        <<queue[j].status, queue'[j].status>> \in Allowed]_vars

(* C17: an owner is admitted at most MAX_USER_UPLOADS_PER_MINUTE times     *)
(* within a minute: the admissions counted under the live per-minute key   *)
(* never exceed the limit.                                                 *)
C17_RateLimit == \A o \in Owners : MinuteCount(o) <= MAX_USER_UPLOADS_PER_MINUTE

(* ---------------------------------------------------------------------- *)
(* The order of dispatch over a long backlog                               *)
(* ---------------------------------------------------------------------- *)
(* the queue is not served for BacklogTicks steps of the clock (no worker  *)
(* is up, or the backlog is long) while notes keep arriving                *)
Backlog ==
  /\ \A p \in Callers : call[p].op = "idle"
  /\ now <= MaxTime
  /\ now' = now + BacklogTicks
  /\ lastOp' = NoOp
  /\ UNCHANGED <<grants, ledger, roundMode, sess, charged>>

(* the owner holds a small plan about to end and a monthly plan *)
OrderInit ==
  /\ QueueStart
  /\ EarlierUploads
  /\ grants = <<[owner |-> "u1", total |-> Unit, consumed |-> 0, expiry |-> 2,
                 status |-> "active"],
                [owner |-> "u1", total |-> 2 * Unit, consumed |-> 0, expiry |-> MonthTicks,
                 status |-> "active"],
                [owner |-> "u2", total |-> Unit, consumed |-> 0, expiry |-> 5,
                 status |-> "active"]>>
  /\ ledger = <<>>
  /\ now = 1
  /\ roundMode = "even"
  /\ sess = [c \in Clients |-> Idle]
  /\ charged = [j \in Jobs |-> 0]
  /\ lastOp = NoOp

OrderNext ==
  \/ \E j \in Jobs : AddBegin("p1", j) /\ UNCHANGED <<ledgerVars, now, flowVars>>
  \/ AddCommit("p1") /\ UNCHANGED <<ledgerVars, now, flowVars>>
  \/ GetFound("p1") /\ UNCHANGED <<ledgerVars, now, flowVars>>
  \/ GetCommit("p1") /\ UNCHANGED <<ledgerVars, now, flowVars>>
  \/ \E j \in Jobs, success \in BOOLEAN :
        mark_completed(j, success) /\ UNCHANGED <<ledgerVars, now, flowVars>>
  \/ QueueTick /\ UNCHANGED <<queueVars, flowVars>>
  \/ Backlog /\ UNCHANGED <<queueVars, flowVars>>

OrderSpec == OrderInit /\ [][OrderNext]_vars

(* the ranked notes whose entry is waiting *)
Waiting == {j \in Members : queue[j].status = "waiting"}

(* C13: of two waiting notes the one of higher priority is dispatched      *)
(* first, however far apart they were added: a note is not on top of the   *)
(* ranking while a waiting note of higher priority is ranked.              *)
C13_PriorityFirst ==
  \A j, k \in Waiting : queue[j].priority > queue[k].priority => Top # k

(* the highest tier over the active, unexpired subscriptions of an owner *)
HighestTier(gr, o, t) ==
  IF \E g \in ActiveSubs(gr, o, t) : PlanPriority(g) = "high" THEN 2
  ELSE IF ActiveSubs(gr, o, t) # {} THEN 1
  ELSE 0

(* C18: the priority computed for an admission is the highest tier over    *)
(* the owner's active subscriptions: 2 with a high-priority plan among     *)
(* them, otherwise 1 with any active subscription, otherwise 0.            *)
C18_HighestTier ==
  \A p \in Callers :
    call[p].op = "add" =>
       call[p].priority = HighestTier(grants, NoteOwner(call[p].job), now)

(* ====================================================================== *)
(* Worker: process_file_with_credits                                       *)
(* ====================================================================== *)
FlowJobs == {1}

(* calculate_note_credits: the uploads of each note come to a minute and a *)
(* half (an audio minute and one image)                                    *)
Cost(j) == Unit + Unit \div 2

(* ERROR_PATTERNS, in the order of the dict: pattern, category, retryable  *)
ERROR_PATTERNS ==
  << [pattern |-> "quota", category |-> "api_error", retryable |-> FALSE],
     [pattern |-> "rate limit", category |-> "api_error", retryable |-> TRUE],
     [pattern |-> "authentication", category |-> "api_error", retryable |-> FALSE],
     [pattern |-> "403", category |-> "api_error", retryable |-> FALSE],
     [pattern |-> "invalid file", category |-> "file_error", retryable |-> FALSE],
     [pattern |-> "file not found", category |-> "file_error", retryable |-> FALSE],
     [pattern |-> "unsupported format", category |-> "file_error", retryable |-> FALSE],
     [pattern |-> "timeout", category |-> "network_error", retryable |-> TRUE],
     [pattern |-> "connection", category |-> "network_error", retryable |-> TRUE],
     [pattern |-> "network", category |-> "network_error", retryable |-> TRUE],
     [pattern |-> "json", category |-> "parsing_error", retryable |-> TRUE],
     [pattern |-> "database", category |-> "database_error", retryable |-> TRUE],
     [pattern |-> "models/gemini", category |-> "api_error", retryable |-> FALSE] >>

Patterns == {ERROR_PATTERNS[i].pattern : i \in DOMAIN ERROR_PATTERNS}

(* An error is modelled by the set of patterns that its lowercased text    *)
(* contains (none for a text that contains no pattern).                    *)
Messages == {m \in SUBSET Patterns : Cardinality(m) <= MaxPatterns}

(* the entries of ERROR_PATTERNS whose pattern the text contains *)
Matching(msg) == {i \in DOMAIN ERROR_PATTERNS : ERROR_PATTERNS[i].pattern \in msg}

(* a classification that retries what it does not know *)
classify_errorRetryingUnknown(msg) ==
  IF Matching(msg) = {} THEN [category |-> "unknown_error", retryable |-> TRUE]
  ELSE LET i == CHOOSE a \in Matching(msg) : \A b \in Matching(msg) : a <= b
       IN  [category |-> ERROR_PATTERNS[i].category, retryable |-> ERROR_PATTERNS[i].retryable]

(* classify_error: the first entry, in dict order, whose pattern the text  *)
(* contains decides; without one the error is unknown and not retryable    *)
classify_error(msg) ==
  IF Matching(msg) = {} THEN [category |-> "unknown_error", retryable |-> FALSE]
  ELSE LET i == CHOOSE a \in Matching(msg) : \A b \in Matching(msg) : a <= b
       IN  [category |-> ERROR_PATTERNS[i].category, retryable |-> ERROR_PATTERNS[i].retryable]

(* a retry decision that ignores the class of the error *)
should_retryAnyError(e, current_retry_count, max_retries) ==
  IF current_retry_count >= max_retries THEN FALSE ELSE TRUE

should_retry(e, current_retry_count, max_retries) ==
  IF current_retry_count >= max_retries THEN FALSE ELSE classify_error(e).retryable

get_retry_delay(retry_count) == 5 * (3 ^ retry_count)

(* deduct_credits run without another session in between: the rows and     *)
(* the entries it commits                                                  *)
Deducted(o, amt, j) ==
  LET subs == OrderByEndDate(grants, ActiveSubs(grants, o, now))
      w == DeductWalk(grants, subs, 1, amt, Balance(o), o, j, <<>>)
  IN  [grants |-> Flush(grants, w.gr, grants, roundMode), ents |-> w.ents]

(* refund_credits run without another session in between *)
Refunded(o, amt, j) ==
  LET txs == DeductTransactions(ledger, Len(ledger), o, j)
      w == RefundWalk(grants, txs, 1, amt, Balance(o), o, j, <<>>)
  IN  [grants |-> Flush(grants, w.gr, grants, roundMode), ents |-> w.ents]

(* the workers running the task of note j *)
Busy(j) == {w \in Workers : worker[w].pc # "idle" /\ worker[w].job = j}

(* a worker picks up a task that process_queue sent and no worker has yet; *)
(* workers are interchangeable                                             *)
PicksUp(w, j) ==
  /\ worker[w].pc = "idle"
  /\ w = "w2" => worker["w1"].pc # "idle"
  /\ running[j] > Cardinality(Busy(j))

(* lines 83-116: the credits are calculated and deducted *)
W_Deduct(w, j) ==
  /\ PicksUp(w, j)
  /\ Len(ledger) < MaxFlowLedger
  /\ Balance(NoteOwner(j)) >= Cost(j)
  /\ LET d == Deducted(NoteOwner(j), Cost(j), j)
     IN  /\ grants' = d.grants
         /\ ledger' = ledger \o d.ents
         /\ worker' = [worker EXCEPT ![w] =
                         [pc |-> "process", job |-> j, error |-> {},
                          attempt |-> note[j].retry_count,
                          deducted |-> SumAmounts(d.ents, Len(d.ents)), refunded |-> 0]]
  /\ charged' = [charged EXCEPT ![j] = Cost(j)]
  /\ lastOp' = NoOp
  /\ UNCHANGED <<now, roundMode, sess, queueVars, note, verdict>>

(* a worker that goes on to the file although the deduction was refused *)
W_InsufficientProceeds(w, j) ==
  /\ PicksUp(w, j)
  /\ Balance(NoteOwner(j)) < Cost(j)
  /\ worker' = [worker EXCEPT ![w] =
                  [pc |-> "process", job |-> j, error |-> {},
                   attempt |-> note[j].retry_count, deducted |-> 0, refunded |-> 0]]
  /\ lastQ' = NoQ
  /\ UNCHANGED <<ledgerVars, now, queue, ranking, processing_count, minute_key, quota,
                 call, running, note, verdict>>

(* lines 117-141: InsufficientCreditsError; the note and the queue entry   *)
(* are marked failed                                                       *)
W_Insufficient(w, j) ==
  /\ PicksUp(w, j)
  /\ Balance(NoteOwner(j)) < Cost(j)
  /\ note' = [note EXCEPT ![j].status = "failed"]
  /\ mark_completed(j, FALSE)
  /\ UNCHANGED <<ledgerVars, now, worker, verdict>>

(* lines 146-189: Gemini returns; note completed, mark_completed(True) *)
W_Succeed(w) ==
  /\ worker[w].pc = "process"
  /\ note' = [note EXCEPT ![worker[w].job].status = "completed"]
  /\ mark_completed(worker[w].job, TRUE)
  /\ worker' = [worker EXCEPT ![w] = WIdle]
  /\ UNCHANGED <<ledgerVars, now, verdict>>

(* line 195: processing raises *)
W_Fail(w, e) ==
  /\ worker[w].pc = "process"
  /\ worker' = [worker EXCEPT ![w].pc = "refund", ![w].error = e]
  /\ lastQ' = NoQ
  /\ UNCHANGED <<ledgerVars, now, queue, ranking, processing_count, minute_key, quota,
                 call, running, note, verdict>>

(* lines 201-218: refund_credits(user, required_credits, note) *)
W_Refund(w) ==
  /\ worker[w].pc = "refund"
  /\ LET j == worker[w].job
         r == Refunded(NoteOwner(j), Cost(j), j)
     IN  /\ grants' = r.grants
         /\ ledger' = ledger \o r.ents
         /\ worker' = [worker EXCEPT ![w].pc = "report",
                                     ![w].refunded = SumAmounts(r.ents, Len(r.ents))]
  /\ lastOp' = NoOp
  /\ UNCHANGED <<now, roundMode, sess, charged, queueVars, note, verdict>>

(* lines 220-245: should_retry; the note counts the retry and retry_task   *)
(* is called with the backoff delay                                        *)
W_Retry(w) ==
  /\ worker[w].pc = "report"
  /\ should_retry(worker[w].error, worker[w].attempt, 3)
  /\ note' = [note EXCEPT ![worker[w].job] =
                [status |-> "processing", retry_count |-> worker[w].attempt + 1]]
  /\ retry_task(worker[w].job, get_retry_delay(worker[w].attempt))
  /\ worker' = [worker EXCEPT ![w] = WIdle]
  /\ UNCHANGED <<ledgerVars, now, verdict>>

(* lines 247-274: no retry; the note and the queue entry are marked failed *)
W_GiveUp(w) ==
  /\ worker[w].pc = "report"
  /\ ~should_retry(worker[w].error, worker[w].attempt, 3)
  /\ note' = [note EXCEPT ![worker[w].job].status = "failed"]
  /\ mark_completed(worker[w].job, FALSE)
  /\ worker' = [worker EXCEPT ![w] = WIdle]
  /\ UNCHANGED <<ledgerVars, now, verdict>>

(* the worker process dies where it is *)
W_Lost(w) ==
  /\ worker[w].pc # "idle"
  /\ WorkerLost(worker[w].job)
  /\ worker' = [worker EXCEPT ![w] = WIdle]
  /\ UNCHANGED <<ledgerVars, now, note, verdict>>

(* an empty queue; the owner of the notes holds one or two running         *)
(* subscriptions                                                           *)
FlowInit ==
  /\ QueueStart
  /\ EarlierUploads
  /\ grants \in {gr \in InitGrants : gr[2].expiry > 1}
  /\ ledger = <<>>
  /\ now = 1
  /\ roundMode \in {"even", "away"}
  /\ sess = [c \in Clients |-> Idle]
  /\ charged = [j \in Jobs |-> 0]
  /\ lastOp = NoOp

FlowNext ==
  \/ \E j \in FlowJobs : AddBegin("p1", j) /\ UNCHANGED <<ledgerVars, now, flowVars>>
  \/ AddCommit("p1") /\ UNCHANGED <<ledgerVars, now, flowVars>>
  \/ GetMissing /\ UNCHANGED <<ledgerVars, now, flowVars>>
  \/ GetFound("p1") /\ UNCHANGED <<ledgerVars, now, flowVars>>
  \/ GetCommit("p1") /\ UNCHANGED <<ledgerVars, now, flowVars>>
  \/ SweepBegin("p1") /\ UNCHANGED <<ledgerVars, now, flowVars>>
  \/ \E j \in FlowJobs : SweepRetry("p1", j) /\ UNCHANGED <<ledgerVars, now, flowVars>>
  \/ \E j \in FlowJobs : SweepFail("p1", j) /\ UNCHANGED <<ledgerVars, now, flowVars>>
  \/ \E w \in Workers, j \in FlowJobs : W_Deduct(w, j)
  \/ \E w \in Workers, j \in FlowJobs : W_Insufficient(w, j)
  \/ \E w \in Workers : W_Succeed(w)
  \/ \E w \in Workers, e \in Errors : W_Fail(w, e)
  \/ \E w \in Workers : W_Refund(w)
  \/ \E w \in Workers : W_Retry(w)
  \/ \E w \in Workers : W_GiveUp(w)
  \/ \E w \in Workers : W_Lost(w)
  \/ QueueTick /\ UNCHANGED <<queueVars, flowVars>>

FlowSpec == FlowInit /\ [][FlowNext]_vars

(* ---------------------------------------------------------------------- *)
(* Properties of the flow                                                  *)
(* ---------------------------------------------------------------------- *)
(* what the ledger holds against note j: deductions less refunds *)
Outstanding(j) ==
  SumOfType(ledger, Len(ledger), j, "deduct") - SumOfType(ledger, Len(ledger), j, "refund")

(* C7: once a note's queue entry is failed and no worker holds its task,   *)
(* every deduction made for the note has been refunded.                    *)
C7_FailedMeansRefunded ==
  \A j \in FlowJobs :
    (queue[j].status = "failed" /\ running[j] = 0 /\ Busy(j) = {}) => Outstanding(j) = 0

(* the step is worker w reporting to the queue after its refund *)
ReportStep(w) ==
  /\ worker[w].pc = "report" /\ worker'[w].pc = "idle"
  /\ lastQ'.op \in {"mark", "retry"} /\ lastQ'.job = worker[w].job

Appended == SubSeq(ledger', Len(ledger) + 1, Len(ledger'))

(* C19: a worker starts on the file only in the step that commits the      *)
(* deduction of the note's cost (never when the balance is short), no      *)
(* ledger session is open while a worker is on the file, a successful run  *)
(* writes nothing to the ledger, and refund entries are written only by a  *)
(* worker whose run on the file has failed.                                *)
C19_LedgerAroundCall ==
  [][/\ \A w \in Workers :
          /\ (worker[w].pc = "idle" /\ worker'[w].pc = "process") =>
                /\ Balance(NoteOwner(worker'[w].job)) >= Cost(worker'[w].job)
                /\ Len(Appended) > 0
                /\ \A k \in 1 .. Len(Appended) :
                      Appended[k].type = "deduct" /\ Appended[k].job = worker'[w].job
                /\ SumAmounts(Appended, Len(Appended)) = Cost(worker'[w].job)
          /\ worker'[w].pc = "process" => \A c \in Clients : sess'[c] = Idle
          /\ (worker[w].pc = "process" /\ worker'[w].pc = "idle"
                 /\ lastQ' = Returned("mark", worker[w].job, "completed")) => ledger' = ledger
     /\ (\E k \in 1 .. Len(Appended) : Appended[k].type = "refund") =>
          \E w \in Workers :
             /\ worker[w].pc = "refund" /\ worker[w].error # {}
             /\ worker'[w].pc = "report"
             /\ \A k \in 1 .. Len(Appended) :
                   Appended[k].type = "refund" /\ Appended[k].job = worker[w].job]_vars

(* a worker has deducted, failed on the file and refunded, in this order *)
C19_Witness ==
  \E w \in Workers :
     /\ worker[w].pc = "report" /\ worker[w].error = {"timeout"}
     /\ worker[w].deducted = Cost(worker[w].job)
     /\ worker[w].refunded = Cost(worker[w].job)
     /\ Len(ledger) >= 2
     /\ ledger[1].type = "deduct" /\ ledger[Len(ledger)].type = "refund"

(* ====================================================================== *)
(* Error classification: ProcessingError                                   *)
(* ====================================================================== *)
Attempts == 0 .. MaxRetryCount + 1

(* the handler of a processing error classifies it and decides on a retry  *)
(* (tasks_with_credits.py, lines 221-228); a behaviour follows one error   *)
Decide(msg, n, m) ==
  /\ ~verdict.made
  /\ verdict' = [error |-> msg, current_retry_count |-> n, max_retries |-> m,
                 category |-> classify_error(msg).category,
                 retryable |-> classify_error(msg).retryable,
                 retry |-> should_retry(msg, n, m), made |-> TRUE]
  /\ UNCHANGED <<ledgerVars, now, queueVars, note, worker>>

ErrorInit == QueueInit

ErrorNext == \E msg \in Messages, n \in Attempts, m \in Attempts : Decide(msg, n, m)

ErrorSpec == ErrorInit /\ [][ErrorNext]_vars

(* C15: should_retry is true exactly when the error is classified          *)
(* retryable and the retry count is below max_retries; an error whose text *)
(* contains no known pattern is unknown and is never retried.              *)
C15_ShouldRetry ==
  verdict.made =>
    /\ verdict.retry <=>
          (verdict.retryable /\ verdict.current_retry_count < verdict.max_retries)
    /\ Matching(verdict.error) = {} =>
          (verdict.category = "unknown_error" /\ ~verdict.retryable /\ ~verdict.retry)

(* an error containing two patterns is retried on its third attempt *)
C15_Witness ==
  /\ verdict.made /\ verdict.retry
  /\ Cardinality(verdict.error) = 2
  /\ verdict.current_retry_count = 2 /\ verdict.max_retries = 3

(* the patterns of network, timeout and quota / rate limit failures *)
TransientKinds == {"quota", "rate limit", "timeout", "connection", "network"}

(* the patterns of malformed or unsupported input *)
MalformedKinds == {"invalid file", "unsupported format"}

(* C16: an error of the network, timeout or quota / rate limit kinds is    *)
(* classified retryable, an error of malformed or unsupported input is     *)
(* not, and errors of one category get the same retryable flag.            *)
C16_Taxonomy ==
  (verdict.made /\ verdict.error # {}) =>
    /\ verdict.error \subseteq TransientKinds => verdict.retryable
    /\ verdict.error \subseteq MalformedKinds => ~verdict.retryable
    /\ \A msg \in Messages :
          classify_error(msg).category = verdict.category =>
             classify_error(msg).retryable = verdict.retryable

(* ====================================================================== *)
(* Ledger entries as the DECIMAL(10, 2) columns hold them                  *)
(* ====================================================================== *)
(* In this part amounts are in thousandths of a minute: the cost of an     *)
(* audio file is duration_seconds / 60.0, which is not rounded before it   *)
(* is deducted (calculate_file_credits).                                   *)
Milli == 1000

(* costs of 0.3 s and 7.5 s of audio, of an image, and of a minute *)
MilliAmounts == {5, 125, 500, 1000}

(* the balances a call may read: whole minutes, as minutes_consumed and    *)
(* max_minutes are INTEGER columns                                         *)
MilliBalances == {m * Milli : m \in 0 .. MaxMinutes}

(* a value stored into a DECIMAL(10, 2) column: rounded to the nearest     *)
(* hundredth; a half goes to the even neighbour or away from zero          *)
(* depending on the platform.  x >= 0.                                     *)
StoreDecimal(x, mode) ==
  LET q == x \div 10
      r == x % 10
  IN  IF r < 5 THEN q * 10
      ELSE IF r > 5 THEN (q + 1) * 10
      ELSE IF mode = "even" /\ q % 2 = 0 THEN q * 10
      ELSE (q + 1) * 10

(* one CreditTransaction row as deduct_credits, refund_credits and         *)
(* log_purchase_transaction write it: balance_before is the balance read,  *)
(* balance_after is computed from the unrounded amount, and each of the    *)
(* three values is stored into its own column                              *)
LogTransaction(ty, balance_before, amount) ==
  /\ Len(ledger) < MaxEntries
  /\ ty = "deduct" => amount <= balance_before
  /\ LET balance_after == IF ty = "deduct" THEN balance_before - amount
                          ELSE balance_before + amount
     IN  ledger' = Append(ledger,
                     [owner |-> "u1", grant |-> 1, job |-> 1, type |-> ty,
                      amount |-> StoreDecimal(amount, roundMode),
                      before |-> StoreDecimal(balance_before, roundMode),
                      after |-> StoreDecimal(balance_after, roundMode)])
  /\ UNCHANGED <<grants, now, roundMode, sess, charged, lastOp, queueVars, flowVars>>

(* no entry written yet; the server rounds a half one way or the other *)
EntryInit ==
  /\ QueueStart
  /\ EarlierUploads
  /\ grants \in InitGrants
  /\ ledger = <<>>
  /\ now = 1
  /\ roundMode \in {"even", "away"}
  /\ sess = [c \in Clients |-> Idle]
  /\ charged = [j \in Jobs |-> 0]
  /\ lastOp = NoOp

EntryNext ==
  \E ty \in {"deduct", "refund", "purchase"}, b \in MilliBalances, a \in MilliAmounts :
     LogTransaction(ty, b, a)

EntrySpec == EntryInit /\ [][EntryNext]_vars

(* C20: in every ledger entry balance_after is balance_before minus the    *)
(* amount for a deduct and balance_before plus the amount for a refund or  *)
(* a purchase, and balance_after is not negative.                          *)
C20_EntryArithmetic ==
  \A k \in 1 .. Len(ledger) :
     /\ ledger[k].after = IF ledger[k].type = "deduct"
                          THEN ledger[k].before - ledger[k].amount
                          ELSE ledger[k].before + ledger[k].amount
     /\ ledger[k].after >= 0

(* ---------------------------------------------------------------------- *)
(* Properties of the stored state                                          *)
(* ---------------------------------------------------------------------- *)

(* C21: in every reachable state, whatever deductions and refunds have run *)
(* and however they interleaved, every subscription has                    *)
(* 0 <= minutes_consumed <= max_minutes.                                   *)
C21_GrantInvariant ==
  \A g \in GrantIds : grants[g].consumed >= 0 /\ grants[g].consumed <= grants[g].total

(* two deductions overlapped and the later commit left a subscription full *)
C21_Witness ==
  /\ lastOp.kind = "deduct" /\ ~lastOp.raised /\ lastOp.overlapped
  /\ \E g \in GrantIds : grants[g].consumed = grants[g].total

(* no call of the queue manager is between its read and its write *)
QueueQuiet == \A p \in Callers : call[p].op = "idle"

(* C22: whenever no queue operation is in flight, a note is a member of    *)
(* the ranking if and only if its processing_queue row has status waiting. *)
C22_RankingMatchesRows ==
  QueueQuiet => \A j \in Jobs : ranking[j].member <=> queue[j].status = "waiting"

(* a sweep handles the loaded task j in this step *)
SweepStep(p, j) ==
  /\ call[p].op = "sweep" /\ j \in call[p].stale
  /\ call'[p].op = "idle" \/ j \notin call'[p].stale

(* C23: cleanup_stale_tasks acts on exactly the rows that are processing   *)
(* and were started longer than the timeout ago: such a row is re-enqueued *)
(* through retry_task when its retry_count is below MAX_RETRY_ATTEMPTS and *)
(* is marked failed otherwise; every other row is left unchanged.          *)
C23_SweepFrame ==
  [][\A p \in Callers, j \in Jobs :
       SweepStep(p, j) =>
         /\ j \in StaleTasks
         /\ IF queue[j].retry_count < MAX_RETRY_ATTEMPTS
            THEN queue'[j] = Retried(queue[j]) /\ ranking'[j].member
            ELSE queue'[j] = [queue[j] EXCEPT !.status = "failed"]
         /\ \A k \in Jobs \ {j} : queue'[k] = queue[k]]_vars

(* ---------------------------------------------------------------------- *)
(* The worker that the API starts: tasks_with_credits_fixed.py.  A task is *)
(* a Celery message; running[j] counts the messages of note j that were    *)
(* sent and whose run has not ended.  The worker does not use the queue.   *)
(* ---------------------------------------------------------------------- *)

(* what processing may raise: the errors above and one that no pattern matches *)
Failures == Errors \cup {{}}

(* api/v1/notes.py, lines 100-128: the note is created in processing and   *)
(* process_file_with_credits.delay(note_id) is called, once per note       *)
delay(j) ==
  /\ note[j].status = "processing" /\ note[j].retry_count = 0
  /\ running[j] = 0
  /\ running' = [running EXCEPT ![j] = 1]
  /\ lastQ' = NoQ
  /\ UNCHANGED <<ledgerVars, now, queue, ranking, processing_count, minute_key, quota,
                 call, note, worker, verdict>>

(* lines 73-82: the credits are deducted in a session of their own *)
F_Deduct(w, j) == W_Deduct(w, j)

(* lines 83-100: InsufficientCreditsError; the note is marked failed *)
F_Insufficient(w, j) ==
  /\ PicksUp(w, j)
  /\ Balance(NoteOwner(j)) < Cost(j)
  /\ note' = [note EXCEPT ![j].status = "failed"]
  /\ running' = [running EXCEPT ![j] = @ - 1]
  /\ lastQ' = NoQ
  /\ UNCHANGED <<ledgerVars, now, queue, ranking, processing_count, minute_key, quota,
                 call, worker, verdict>>

(* lines 105-131: Gemini returns and the note is completed *)
F_Succeed(w) ==
  /\ worker[w].pc = "process"
  /\ note' = [note EXCEPT ![worker[w].job].status = "completed"]
  /\ running' = [running EXCEPT ![worker[w].job] = @ - 1]
  /\ worker' = [worker EXCEPT ![w] = WIdle]
  /\ lastQ' = NoQ
  /\ UNCHANGED <<ledgerVars, now, queue, ranking, processing_count, minute_key, quota,
                 call, verdict>>

(* a handler that schedules the retry without counting it *)
F_RetryUncounted(w) ==
  /\ worker[w].pc = "report"
  /\ should_retry(worker[w].error, note[worker[w].job].retry_count, 3)
  /\ worker' = [worker EXCEPT ![w] = WIdle]
  /\ lastQ' = NoQ
  /\ UNCHANGED <<ledgerVars, now, queue, ranking, processing_count, minute_key, quota,
                 call, running, note, verdict>>

(* lines 195-217: the note is read again, should_retry holds; the note     *)
(* counts the retry and the task is sent again with the backoff countdown  *)
F_Retry(w) ==
  /\ worker[w].pc = "report"
  /\ should_retry(worker[w].error, note[worker[w].job].retry_count, 3)
  /\ note' = [note EXCEPT ![worker[w].job] =
                [status |-> "processing", retry_count |-> @.retry_count + 1]]
  /\ worker' = [worker EXCEPT ![w] = WIdle]
  /\ lastQ' = NoQ
  /\ UNCHANGED <<ledgerVars, now, queue, ranking, processing_count, minute_key, quota,
                 call, running, verdict>>

(* lines 219-238: no retry; the note is marked failed *)
F_GiveUp(w) ==
  /\ worker[w].pc = "report"
  /\ ~should_retry(worker[w].error, note[worker[w].job].retry_count, 3)
  /\ note' = [note EXCEPT ![worker[w].job].status = "failed"]
  /\ running' = [running EXCEPT ![worker[w].job] = @ - 1]
  /\ worker' = [worker EXCEPT ![w] = WIdle]
  /\ lastQ' = NoQ
  /\ UNCHANGED <<ledgerVars, now, queue, ranking, processing_count, minute_key, quota,
                 call, verdict>>

(* the steps of the task that worker w runs *)
F_Run(w) ==
  \/ \E j \in FlowJobs : F_Deduct(w, j)
  \/ \E j \in FlowJobs : F_Insufficient(w, j)
  \/ F_Succeed(w)
  \/ \E e \in Failures : W_Fail(w, e)
  \/ W_Refund(w)
  \/ F_Retry(w)
  \/ F_GiveUp(w)

RetryInit == FlowInit

RetryNext ==
  \/ \E j \in FlowJobs : delay(j)
  \/ \E w \in Workers, j \in FlowJobs : F_Deduct(w, j)
  \/ \E w \in Workers, j \in FlowJobs : F_Insufficient(w, j)
  \/ \E w \in Workers : F_Succeed(w)
  \/ \E w \in Workers, e \in Failures : W_Fail(w, e)
  \/ \E w \in Workers : W_Refund(w)
  \/ \E w \in Workers : F_Retry(w)
  \/ \E w \in Workers : F_GiveUp(w)
  \/ QueueTick /\ UNCHANGED <<queueVars, flowVars>>

(* a Celery worker runs every task it is sent, and a task runs to its end *)
RetrySpec ==
  /\ RetryInit /\ [][RetryNext]_vars
  /\ \A w \in Workers : WF_vars(F_Run(w))

(* worker w ends a run that failed *)
F_Report(w) == worker[w].pc = "report" /\ worker'[w].pc = "idle"

C25_CounterTracksRows ==
  /\ processing_count >= 0
  /\ QueueQuiet => processing_count = Cardinality(Processing)

(* C26: a note is charged at most once: what the ledger holds against it,  *)
(* deductions less refunds, is 0 or the note's cost, and it is the cost    *)
(* only while the queue entry is processing or after it completed.         *)
C26_ChargedOnce ==
  \A j \in FlowJobs :
    /\ Outstanding(j) \in {0, Cost(j)}
    /\ Outstanding(j) = Cost(j) => queue[j].status \in {"processing", "completed"}

(* C27: the retry_count of a queue entry never exceeds MAX_RETRY_ATTEMPTS, *)
(* the retries after a worker's failure and the retries of the sweep       *)
(* counted together.                                                       *)
C27_RetryCountBounded ==
  \A j \in FlowJobs : queue[j].retry_count <= MAX_RETRY_ATTEMPTS

(* ---------------------------------------------------------------------- *)
(* Purchases: a subscription is created cancelled, payment_callback makes  *)
(* it active once the gateway has verified the payment, and the purchase   *)
(* is logged.                                                              *)
(* ---------------------------------------------------------------------- *)

(* CreditManager.log_purchase_transaction: the entry it writes for         *)
(* subscription g in the state gr of the subscriptions                     *)
log_purchase_transaction(gr, o, g, amount) ==
  LET balance_before == get_user_balance(gr, o, now).total_minutes
  IN  [owner |-> o, grant |-> g, job |-> NoJob, type |-> "purchase",
       amount |-> amount,
       before |-> balance_before,
       after |-> balance_before + amount]

(* payment_callback, lines 204-235: update_subscription_status(active) is  *)
(* committed, then the purchase of plan.max_minutes is logged              *)
payment_callback(g) ==
  /\ grants[g].status = "cancelled"
  /\ Len(ledger) < MaxLedger
  /\ LET o == grants[g].owner
         activated == [grants EXCEPT ![g].status = "active"]
         transaction == log_purchase_transaction(activated, o, g, grants[g].total)
     IN  /\ grants' = activated
         /\ ledger' = Append(ledger, transaction)
         /\ lastOp' = [NoOp EXCEPT !.kind = "purchase", !.owner = o,
                                   !.amount = grants[g].total,
                                   !.balSeen = transaction.before,
                                   !.balBefore = Balance(o),
                                   !.balAfter = get_user_balance(activated, o, now).total_minutes,
                                   !.grantsBefore = grants, !.lenBefore = Len(ledger),
                                   !.wrote = <<transaction>>]
  /\ UNCHANGED <<now, roundMode, sess, charged>>

PurchaseInit == LedgerInit

PurchaseNext ==
  \/ LedgerNext
  \/ \E g \in GrantIds : payment_callback(g) /\ UNCHANGED <<queueVars, flowVars>>

PurchaseSpec == PurchaseInit /\ [][PurchaseNext]_vars

(* C28: right after a deduction, a refund or the logging of a purchase has *)
(* committed, the balance_after of the last entry it wrote is the balance  *)
(* of the user as get_user_balance computes it from the subscriptions.     *)
C28_AuditAgrees ==
  (lastOp.kind \in {"deduct", "refund", "purchase"} /\ ~lastOp.raised /\ lastOp.wrote # <<>>)
    => lastOp.wrote[Len(lastOp.wrote)].after = Balance(lastOp.owner)

(* the time from which the ranked member of a retried note is due: the     *)
(* future timestamp that retry_task put into its score                     *)
DueAt(j) == queue[j].priority * PriorityWeight - ranking[j].score

(* C29: a note that retry_task re-enqueued with a delay is not handed out  *)
(* by get_next_task before the delay has passed.                           *)
C29_BackoffEnforced ==
  [][\A j \in Jobs :
       (DispatchStep(j) /\ queue[j].retry_count > 0 /\ ranking[j].member)
         => Timestamp(now) >= DueAt(j)]_vars

(* ---------------------------------------------------------------------- *)
(* Dispatch of what is waiting, with a ranking store that may fail.  Redis *)
(* is called after the row has been committed; when the call raises, or    *)
(* the process stops in between, the row stays as it was committed.        *)
(* ---------------------------------------------------------------------- *)

(* add_to_queue, lines 274-283 and 303-306: the INSERT is committed and    *)
(* zadd raises; the handler rolls back nothing and raises QueueError       *)
AddRankingFails(p) ==
  /\ call[p].op = "add"
  /\ queue[call[p].job].status = "none"
  /\ queue' = [queue EXCEPT ![call[p].job] = [NoRow EXCEPT !.status = "waiting",
                                                          !.priority = call[p].priority]]
  /\ call' = [call EXCEPT ![p] = QIdle]
  /\ lastQ' = Returned("add", call[p].job, "error")
  /\ UNCHANGED <<ranking, processing_count, minute_key, quota, running>>

(* retry_task, lines 468-491: the row is committed and zadd raises; the    *)
(* handler logs the error, the counter is not decremented                  *)
RetryRankingFails(j) ==
  /\ running[j] > 0
  /\ running' = [running EXCEPT ![j] = @ - 1]
  /\ queue[j].status # "none"
  /\ Retries < MaxRetryCount
  /\ queue' = [queue EXCEPT ![j] = Retried(@)]
  /\ lastQ' = Returned("retry", j, "error")
  /\ UNCHANGED <<ranking, processing_count, minute_key, quota, call>>

(* process_queue, every 10 seconds: one call of get_next_task.  With one   *)
(* dispatcher and no sweep a ranked member always has a waiting row, so    *)
(* the branch that discards a member (GetMissing) is never taken here.     *)
Dispatcher ==
  /\ GetFound("p1") \/ GetCommit("p1")
  /\ UNCHANGED <<ledgerVars, now, flowVars>>

(* a worker that holds a task reports it *)
Reports ==
  /\ \E j \in Jobs :
        \/ \E success \in BOOLEAN : mark_completed(j, success)
        \/ \E secs \in RetryDelays : retry_task(j, secs)
        \/ RetryRankingFails(j)
  /\ UNCHANGED <<ledgerVars, now, flowVars>>

(* a call of add_to_queue that has read comes to its end *)
AddEnds ==
  /\ AddCommit("p1") \/ AddRankingFails("p1")
  /\ UNCHANGED <<ledgerVars, now, flowVars>>

DispatchInit == QueueInit

DispatchNext ==
  \/ \E j \in Jobs : AddBegin("p1", j) /\ UNCHANGED <<ledgerVars, now, flowVars>>
  \/ AddCommit("p1") /\ UNCHANGED <<ledgerVars, now, flowVars>>
  \/ AddRankingFails("p1") /\ UNCHANGED <<ledgerVars, now, flowVars>>
  \/ GetNone /\ UNCHANGED <<ledgerVars, now, flowVars>>
  \/ GetFound("p1") /\ UNCHANGED <<ledgerVars, now, flowVars>>
  \/ GetCommit("p1") /\ UNCHANGED <<ledgerVars, now, flowVars>>
  \/ \E j \in Jobs, success \in BOOLEAN :
        mark_completed(j, success) /\ UNCHANGED <<ledgerVars, now, flowVars>>
  \/ \E j \in Jobs, secs \in RetryDelays :
        retry_task(j, secs) /\ UNCHANGED <<ledgerVars, now, flowVars>>
  \/ \E j \in Jobs : RetryRankingFails(j) /\ UNCHANGED <<ledgerVars, now, flowVars>>
  \/ QueueTick /\ UNCHANGED <<queueVars, flowVars>>

(* the periodic dispatcher keeps running, running tasks are reported, and  *)
(* a call of add_to_queue ends; each note is submitted once                *)
DispatchSpec ==
  /\ DispatchInit /\ [][DispatchNext]_vars
  /\ WF_vars(Dispatcher) /\ WF_vars(Reports) /\ WF_vars(AddEnds)

(* C30: every queue entry that is waiting is eventually dispatched, also   *)
(* when the ranking store failed, or the process stopped, after the row    *)
(* was committed in add_to_queue or retry_task.                            *)
C30_WaitingIsDispatched ==
  \A j \in Jobs : queue[j].status = "waiting" ~> queue[j].status = "processing"
====
